---- MODULE Spec2Model ----
(***************************************************************************)
(* Model of kaleidoscope.py: the batch loop that scans the image folder,   *)
(* draws a segment count, preprocesses the images, composes frame_count    *)
(* frames wedge by wedge and saves one GIF per iteration.                  *)
(*                                                                         *)
(* Conventions of the model                                                *)
(*  - An image is a function from Pixels to an intensity 0..255.  The code *)
(*    promotes greyscale to three identical channels and every later       *)
(*    operation acts on the channels alike, so one intensity stands for    *)
(*    the three equal channel values.                                      *)
(*  - Angles are Python floats in degrees; here they are fixed-point       *)
(*    integers in units of 1/AngleScale degree.  cos and sin are fixed-    *)
(*    point Taylor polynomials scaled by TrigScale.                        *)
(*  - frame_size and frame_count are scaled down from 512 and 240 so that  *)
(*    every pixel of every frame can be enumerated.                        *)
(***************************************************************************)
EXTENDS Integers, Sequences, FiniteSets, TLC

\* ---------------------------------------------------------------- bounds
\* frame_count (line 12, 240 in the source), scaled down.
frame_count == 4
\* frame_size (line 13, 512 in the source), scaled down.
frame_size == 8
\* Number of files that may appear in the image folder.
NumFiles == 5

\* ------------------------------------------------------ program constants
max_iterations == 3

\* ------------------------------------------------------------ fixed point
AngleScale == 10 * 100
TrigScale == 100 * 100
FullTurn == 360 * AngleScale
QuarterTurn == 90 * AngleScale

\* int(): Python truncates a float toward zero.  v is scaled by TrigScale.
IntTrunc(v) ==
  IF v >= 0 THEN v \div TrigScale ELSE -((-v) \div TrigScale)

\* Round to nearest (half up) of a value scaled by TrigScale.
RoundNearest(v) == (v + TrigScale \div 2) \div TrigScale

\* np.radians on [0, 45] degrees: millidegrees -> radians scaled by TrigScale.
Radians(d) == (d * 17453 + 50 * AngleScale) \div (100 * AngleScale)

\* Taylor polynomials on [0, pi/4], arguments and results scaled by TrigScale.
SinTaylor(x) ==
  LET x2 == (x * x) \div TrigScale
      x3 == (x * x2) \div TrigScale
      x5 == (x3 * x2) \div TrigScale
  IN  x - x3 \div 6 + x5 \div 120

CosTaylor(x) ==
  LET x2 == (x * x) \div TrigScale
      x4 == (x2 * x2) \div TrigScale
      x6 == (x4 * x2) \div TrigScale
  IN  TrigScale - x2 \div 2 + x4 \div 24 - x6 \div 720

\* sin and cos of an angle in the first quadrant, 0 <= d <= QuarterTurn.
SinQ(d) ==
  IF 2 * d <= QuarterTurn THEN SinTaylor(Radians(d))
  ELSE CosTaylor(Radians(QuarterTurn - d))

CosQ(d) == SinQ(QuarterTurn - d)

\* np.sin(np.radians(a)) and np.cos(np.radians(a)), a in 1/AngleScale degree,
\* result scaled by TrigScale.
Sin(a) ==
  LET m == a % FullTurn
      q == m \div QuarterTurn
      r == m % QuarterTurn
  IN  CASE q = 0 -> SinQ(r)
        [] q = 1 -> CosQ(r)
        [] q = 2 -> -SinQ(r)
        [] OTHER -> -CosQ(r)

Cos(a) ==
  LET m == a % FullTurn
      q == m \div QuarterTurn
      r == m % QuarterTurn
  IN  CASE q = 0 -> CosQ(r)
        [] q = 1 -> -SinQ(r)
        [] q = 2 -> -CosQ(r)
        [] OTHER -> SinQ(r)

\* --------------------------------------------------------------- geometry
\* h, w = frame_size, frame_size; center = (w // 2, h // 2)
h == frame_size
w == frame_size
center == <<w \div 2, h \div 2>>

Pixels == (0 .. w - 1) \X (0 .. h - 1)

\* np.zeros((h, w), dtype=np.uint8)
Zeros == [p \in Pixels |-> 0]

\* rotation_per_frame = 360 / frame_count
rotation_per_frame == FullTurn \div frame_count

\* angle_per_slice = 360 / n_segments
angle_per_slice(n) == FullTurn \div n

\* Faulty variant: the rotation of the following frame.
BaseRotationNextFrame(f) == (f + 1) * rotation_per_frame

\* base_rotation = frame * rotation_per_frame
BaseRotation(f) == f * rotation_per_frame

\* angle1 and angle2 of wedge i
Angle1(base, k, n) == base + k * angle_per_slice(n)
Angle2(base, k, n) == base + (k + 1) * angle_per_slice(n)

\* pts: the triangle center, center + (w cos a1, h sin a1),
\* center + (w cos a2, h sin a2), each coordinate truncated by int().
Pts(a1, a2) ==
  << center,
     << IntTrunc(center[1] * TrigScale + w * Cos(a1)),
        IntTrunc(center[2] * TrigScale + h * Sin(a1)) >>,
     << IntTrunc(center[1] * TrigScale + w * Cos(a2)),
        IntTrunc(center[2] * TrigScale + h * Sin(a2)) >> >>

Cross(a, b, p) ==
  (b[1] - a[1]) * (p[2] - a[2]) - (b[2] - a[2]) * (p[1] - a[1])

Min2(x, y) == IF x <= y THEN x ELSE y
Max2(x, y) == IF x >= y THEN x ELSE y

\* A pixel of the closed triangle pts (edges included; a degenerate
\* triangle is the segment between its extreme vertices).
InPoly(p, pts) ==
  LET d1 == Cross(pts[1], pts[2], p)
      d2 == Cross(pts[2], pts[3], p)
      d3 == Cross(pts[3], pts[1], p)
      neg == d1 < 0 \/ d2 < 0 \/ d3 < 0
      pos == d1 > 0 \/ d2 > 0 \/ d3 > 0
  IN  /\ ~(neg /\ pos)
      /\ p[1] >= Min2(pts[1][1], Min2(pts[2][1], pts[3][1]))
      /\ p[1] <= Max2(pts[1][1], Max2(pts[2][1], pts[3][1]))
      /\ p[2] >= Min2(pts[1][2], Min2(pts[2][2], pts[3][2]))
      /\ p[2] <= Max2(pts[1][2], Max2(pts[2][2], pts[3][2]))

\* cv2.fillConvexPoly(mask, pts, 255) on a zeroed mask.
FillConvexPoly(pts) == [p \in Pixels |-> IF InPoly(p, pts) THEN 255 ELSE 0]

\* The wedge mask of wedge k of n at base rotation base.
WedgeMask(base, k, n) ==
  FillConvexPoly(Pts(Angle1(base, k, n), Angle2(base, k, n)))

\* cv2.bitwise_and(src, src, mask=mask)
BitwiseAndMask(src, mask) ==
  [p \in Pixels |-> IF mask[p] # 0 THEN src[p] ELSE 0]

\* cv2.getRotationMatrix2D(center, angle, 1.0): alpha = cos, beta = sin.
GetRotationMatrix2D(angle) == [alpha |-> Cos(angle), beta |-> Sin(angle)]

\* cv2.warpAffine(img, M, (w, h)): every destination pixel samples the source
\* at the inverse transform of its position (nearest pixel; zero outside).
WarpAffine(img, M) ==
  [p \in Pixels |->
     LET dx == p[1] - center[1]
         dy == p[2] - center[2]
         sx == RoundNearest(center[1] * TrigScale + M.alpha * dx - M.beta * dy)
         sy == RoundNearest(center[2] * TrigScale + M.beta * dx + M.alpha * dy)
     IN  IF <<sx, sy>> \in Pixels THEN img[<<sx, sy>>] ELSE 0]

\* cv2.flip(img, 1): mirror about the vertical axis.
Flip(img) == [p \in Pixels |-> img[<<w - 1 - p[1], p[2]>>]]

\* Faulty variant: the later wedge overwrites instead of adding.
OverwriteAdd(x, y) == IF y # 0 THEN y ELSE x

\* cv2.add on one uint8 value: saturating sum.
SaturateAdd(x, y) == IF x + y > 255 THEN 255 ELSE x + y

\* cv2.add(a, b)
Cv2Add(a, b) == [p \in Pixels |-> SaturateAdd(a[p], b[p])]

\* cv2.circle(circle_mask, center, w // 2, 255, -1): the filled disc.
InDisc(p) ==
  (p[1] - center[1]) * (p[1] - center[1]) + (p[2] - center[2]) * (p[2] - center[2])
    <= (w \div 2) * (w \div 2)

circle_mask == [p \in Pixels |-> IF InDisc(p) THEN 255 ELSE 0]

\* cv2.bitwise_and(output, circle_mask_rgb)
ApplyCircleMask(img) == [p \in Pixels |-> IF circle_mask[p] = 255 THEN img[p] ELSE 0]

\* Lines 62-84 composed: the transformed wedge k that one pass of the wedge
\* loop adds to the canvas.
Rotated(src, base, k, n) ==
  LET mask == WedgeMask(base, k, n)
      wedge == BitwiseAndMask(src, mask)
      M == GetRotationMatrix2D(-Angle1(base, k, n))
      rot == WarpAffine(wedge, M)
  IN  IF k % 2 = 1 THEN Flip(rot) ELSE rot

\* ------------------------------------------------------------ file names
\* A file of the image folder is a number standing for its name; the order of
\* the numbers is the lexicographic order of the names.  Ext gives the file's
\* extension as written on disk.
Exts == <<"png", "JPG", "txt", "jpeg", "Png">>
Ext(f) == Exts[((f - 1) % Len(Exts)) + 1]
Universe == 1 .. NumFiles

\* str.lower() on the extensions that occur.
Lower(e) ==
  CASE e = "JPG" -> "jpg"
    [] e = "Png" -> "png"
    [] OTHER -> e

\* f.lower().endswith(('png', 'jpg', 'jpeg'))
Eligible(f) == Lower(Ext(f)) \in {"png", "jpg", "jpeg"}

\* os.listdir: the files present, in arbitrary order.
Listings ==
  { s \in UNION { [1 .. k -> Universe] : k \in 0 .. NumFiles } :
      \A a, b \in DOMAIN s : a # b => s[a] # s[b] }

\* The list comprehension of line 21: keeps the order of the listing.
RECURSIVE FilterEligible(_)
FilterEligible(s) ==
  IF s = <<>> THEN <<>>
  ELSE IF Eligible(Head(s)) THEN <<Head(s)>> \o FilterEligible(Tail(s))
  ELSE FilterEligible(Tail(s))

\* list.sort(): ascending order (insertion of each element in its place).
RECURSIVE Insert(_, _)
Insert(x, s) ==
  IF s = <<>> THEN <<x>>
  ELSE IF x <= Head(s) THEN <<x>> \o s
  ELSE <<Head(s)>> \o Insert(x, Tail(s))

RECURSIVE SortList(_)
SortList(s) == IF s = <<>> THEN <<>> ELSE Insert(Head(s), SortList(Tail(s)))

\* Faulty variant: the draw starts at 1.
SegmentChoicesFromOne(files) == 1 .. Len(files)

\* random.randint(2, len(image_files)): the values it may return; the empty
\* set when it raises ValueError (empty range).
SegmentChoices(files) == 2 .. Len(files)

\* Lines 35-41 for one file: greyscale, centre crop, resize to
\* frame_size x frame_size, promote to RGB.  The photograph's content is
\* reduced to one grey level per file.
GreyOf(f) == 40 + 60 * ((f - 1) % 4)
Preprocess(f) == [file |-> f, img |-> [p \in Pixels |-> GreyOf(f)]]

\* Faulty variant: the source of the next wedge.
SrcIndexShifted(k, len) == (k + 1) % len

\* src_img = processed_images[i % len(processed_images)]
SrcIndex(k, len) == k % len

\* Faulty variant: the frame loop stops one frame early.
InFrameRangeShort(f) == f < frame_count - 1

\* range(frame_count) and range(n_segments): the loop continues.
InFrameRange(f) == f < frame_count
InSegmentRange(k, n) == k < n

\* Faulty variant: one iteration too many.
LoopConditionInclusive(it) == it <= max_iterations

\* while iteration < max_iterations
LoopCondition(it) == it < max_iterations

\* Faulty variant: the increment is lost.
NextIterationStuck(it) == it

\* iteration += 1
NextIteration(it) == it + 1

\* f"{iteration:03}": decimal digits, zero-padded to at least 3.
RECURSIVE Digits(_)
Digits(n) == IF n < 10 THEN <<n>> ELSE Digits(n \div 10) \o <<n % 10>>

RECURSIVE PadZero(_, _)
PadZero(d, width) == IF Len(d) >= width THEN d ELSE PadZero(<<0>> \o d, width)

Format03(n) == PadZero(Digits(n), 3)

\* output_gif: the artifact name is determined by the formatted index.
OutputGif(it) == Format03(it)

\* ------------------------------------------------------------------ state
VARIABLES
  pc,               \* position in the script
  iteration,        \* line 19
  image_files,      \* lines 21-22
  n_segments,       \* line 25
  processed_images, \* line 32; each entry remembers the file it came from
  frames,           \* line 47; each entry remembers how it was composed
  frame,            \* loop variable of line 55
  base_rotation,    \* line 57
  output,           \* line 56, the canvas of the current frame
  i,                \* loop variable of line 59
  src_img,          \* line 60
  angle1,           \* line 63
  angle2,           \* line 64
  pts,              \* lines 66-76
  mask,             \* lines 62, 77
  wedge,            \* line 79
  M,                \* line 80
  rotated,          \* lines 81, 84
  used,             \* files whose image filled wedges 0..i-1 of this frame
  artifacts,        \* the GIF files written to output_dir: name -> frames
  written,          \* names passed to save(), in order
  opened,           \* number of Image.open calls of the current iteration
  error             \* the exception that ended the run, or "none"

\* The locals of one pass of the wedge loop.
locals == << src_img, angle1, angle2, pts, mask, wedge, M, rotated >>

vars == << pc, iteration, image_files, n_segments, processed_images, frames,
           frame, base_rotation, output, i, locals, used, artifacts, written,
           opened, error >>

Init ==
  /\ pc = "loop"
  /\ iteration = 0
  /\ image_files = <<>>
  /\ n_segments = 0
  /\ processed_images = <<>>
  /\ frames = <<>>
  /\ frame = 0
  /\ base_rotation = 0
  /\ output = Zeros
  /\ i = 0
  /\ src_img = [file |-> 0, img |-> Zeros]
  /\ angle1 = 0
  /\ angle2 = 0
  /\ pts = <<center, center, center>>
  /\ mask = Zeros
  /\ wedge = Zeros
  /\ M = [alpha |-> TrigScale, beta |-> 0]
  /\ rotated = Zeros
  /\ used = <<>>
  /\ artifacts = <<>>
  /\ written = <<>>
  /\ opened = 0
  /\ error = "none"

\* Line 20: the loop test.  "done" is the end of the loop; the viewer page
\* written after it (lines 100-159) is not part of the model.
LoopTest ==
  /\ pc = "loop"
  /\ pc' = IF LoopCondition(iteration) THEN "scan" ELSE "done"
  /\ UNCHANGED << iteration, image_files, n_segments, processed_images, frames,
                  frame, base_rotation, output, i, locals, used, artifacts, written,
                  opened, error >>

\* Lines 21-22: list the folder (one of the listings ls), keep the eligible
\* files, sort them.
Scan(ls) ==
  /\ pc = "scan"
  /\ \E listing \in ls : image_files' = SortList(FilterEligible(listing))
  /\ opened' = 0
  /\ pc' = "choose"
  /\ UNCHANGED << iteration, n_segments, processed_images, frames, frame,
                  base_rotation, output, i, locals, used, artifacts, written, error >>

\* Line 25: draw n_segments; randint raises ValueError on an empty range.
Choose ==
  /\ pc = "choose"
  /\ IF SegmentChoices(image_files) = {}
     THEN /\ pc' = "failed"
          /\ error' = "ValueError: empty range for randrange"
          /\ UNCHANGED n_segments
     ELSE /\ \E n \in SegmentChoices(image_files) : n_segments' = n
          /\ pc' = "check"
          /\ UNCHANGED error
  /\ UNCHANGED << iteration, image_files, processed_images, frames, frame,
                  base_rotation, output, i, locals, used, artifacts, written, opened >>

\* Lines 28-32: the source-count check, then processed_images = [].
Check ==
  /\ pc = "check"
  /\ IF Len(image_files) < n_segments
     THEN /\ pc' = "failed"
          /\ error' = "ValueError: need at least n_segments images"
          /\ UNCHANGED processed_images
     ELSE /\ pc' = "preprocess"
          /\ processed_images' = <<>>
          /\ UNCHANGED error
  /\ UNCHANGED << iteration, image_files, n_segments, frames, frame,
                  base_rotation, output, i, locals, used, artifacts, written, opened >>

\* Lines 33-42, one pass: open and preprocess the next file; Image.open
\* raises when the file cannot be decoded.
PreprocessFile(ok) ==
  /\ pc = "preprocess"
  /\ Len(processed_images) < Len(image_files)
  /\ opened' = opened + 1
  /\ IF ok
     THEN /\ processed_images' =
               Append(processed_images,
                      Preprocess(image_files[Len(processed_images) + 1]))
          /\ UNCHANGED << pc, error >>
     ELSE /\ pc' = "failed"
          /\ error' = "UnidentifiedImageError"
          /\ UNCHANGED processed_images
  /\ UNCHANGED << iteration, image_files, n_segments, frames, frame,
                  base_rotation, output, i, locals, used, artifacts, written >>

\* Lines 44-52: geometry constants, frames = [], the circular mask.
Setup ==
  /\ pc = "preprocess"
  /\ Len(processed_images) = Len(image_files)
  /\ frames' = <<>>
  /\ frame' = 0
  /\ pc' = "frame"
  /\ UNCHANGED << iteration, image_files, n_segments, processed_images,
                  base_rotation, output, i, locals, used, artifacts, written, opened,
                  error >>

\* Lines 55-57: next frame of range(frame_count), or leave the loop.
FrameStart ==
  /\ pc = "frame"
  /\ IF InFrameRange(frame)
     THEN /\ output' = Zeros
          /\ base_rotation' = BaseRotation(frame)
          /\ i' = 0
          /\ used' = <<>>
          /\ pc' = "wedge"
     ELSE /\ pc' = "save"
          /\ UNCHANGED << output, base_rotation, i, used >>
  /\ UNCHANGED << iteration, image_files, n_segments, processed_images, frames,
                  frame, locals, artifacts, written, opened, error >>

\* Lines 59-76: next wedge of range(n_segments): pick the source image, compute
\* the two boundary angles and the triangle.
WedgeStart ==
  /\ pc = "wedge"
  /\ InSegmentRange(i, n_segments)
  /\ src_img' = processed_images[SrcIndex(i, Len(processed_images)) + 1]
  /\ used' = Append(used, src_img'.file)
  /\ angle1' = Angle1(base_rotation, i, n_segments)
  /\ angle2' = Angle2(base_rotation, i, n_segments)
  /\ pts' = Pts(angle1', angle2')
  /\ pc' = "fill"
  /\ UNCHANGED << iteration, image_files, n_segments, processed_images, frames,
                  frame, base_rotation, output, i, mask, wedge, M, rotated,
                  artifacts, written, opened, error >>

\* Lines 62, 77: mask = zeros; cv2.fillConvexPoly(mask, pts, 255).
FillMask ==
  /\ pc = "fill"
  /\ mask' = FillConvexPoly(pts)
  /\ pc' = "mask"
  /\ UNCHANGED << iteration, image_files, n_segments, processed_images, frames,
                  frame, base_rotation, output, i, src_img, angle1, angle2, pts,
                  wedge, M, rotated, used, artifacts, written, opened, error >>

\* Lines 79-80: wedge = bitwise_and(src_img, src_img, mask=mask);
\* M = getRotationMatrix2D(center, -angle1, 1.0).
MaskWedge ==
  /\ pc = "mask"
  /\ wedge' = BitwiseAndMask(src_img.img, mask)
  /\ M' = GetRotationMatrix2D(-angle1)
  /\ pc' = "warp"
  /\ UNCHANGED << iteration, image_files, n_segments, processed_images, frames,
                  frame, base_rotation, output, i, src_img, angle1, angle2, pts,
                  mask, rotated, used, artifacts, written, opened, error >>

\* Line 81: rotated = cv2.warpAffine(wedge, M, (w, h)).
Warp ==
  /\ pc = "warp"
  /\ rotated' = WarpAffine(wedge, M)
  /\ pc' = "flip"
  /\ UNCHANGED << iteration, image_files, n_segments, processed_images, frames,
                  frame, base_rotation, output, i, src_img, angle1, angle2, pts,
                  mask, wedge, M, used, artifacts, written, opened, error >>

\* Lines 83-84: mirror the wedges of odd index.
Mirror ==
  /\ pc = "flip"
  /\ rotated' = IF i % 2 = 1 THEN Flip(rotated) ELSE rotated
  /\ pc' = "add"
  /\ UNCHANGED << iteration, image_files, n_segments, processed_images, frames,
                  frame, base_rotation, output, i, src_img, angle1, angle2, pts,
                  mask, wedge, M, used, artifacts, written, opened, error >>

\* Line 86: output = cv2.add(output, rotated); then the next wedge.
Accumulate ==
  /\ pc = "add"
  /\ output' = Cv2Add(output, rotated)
  /\ i' = i + 1
  /\ pc' = "wedge"
  /\ UNCHANGED << iteration, image_files, n_segments, processed_images, frames,
                  frame, base_rotation, locals, used, artifacts, written, opened,
                  error >>

\* Lines 88-90: clip to the disc and append the frame.
FinishFrame ==
  /\ pc = "wedge"
  /\ ~InSegmentRange(i, n_segments)
  /\ output' = ApplyCircleMask(output)
  /\ frames' = Append(frames, [img |-> output', base |-> base_rotation,
                               srcs |-> used, n |-> n_segments])
  /\ frame' = frame + 1
  /\ pc' = "frame"
  /\ UNCHANGED << iteration, image_files, n_segments, processed_images,
                  base_rotation, i, locals, used, artifacts, written, opened, error >>

\* Lines 93-94: frames[0].save(output_gif, save_all=True,
\* append_images=frames[1:]); the encoder raises when the path is not
\* writable.
Save(ok) ==
  /\ pc = "save"
  /\ IF ok
     THEN /\ artifacts' = (OutputGif(iteration) :> (1 + Len(Tail(frames)))) @@ artifacts
          /\ written' = Append(written, OutputGif(iteration))
          /\ pc' = "incr"
          /\ UNCHANGED error
     ELSE /\ pc' = "failed"
          /\ error' = "OSError"
          /\ UNCHANGED << artifacts, written >>
  /\ UNCHANGED << iteration, image_files, n_segments, processed_images, frames,
                  frame, base_rotation, output, i, locals, used, opened >>

\* Lines 97-98: iteration += 1, sleep.
Incr ==
  /\ pc = "incr"
  /\ iteration' = NextIteration(iteration)
  /\ pc' = "loop"
  /\ UNCHANGED << image_files, n_segments, processed_images, frames, frame,
                  base_rotation, output, i, locals, used, artifacts, written, opened,
                  error >>

\* The process is interrupted (KeyboardInterrupt, kill) between two steps.
Interrupt ==
  /\ pc \notin {"done", "failed", "interrupted"}
  /\ pc' = "interrupted"
  /\ UNCHANGED << iteration, image_files, n_segments, processed_images, frames,
                  frame, base_rotation, output, i, locals, used, artifacts, written,
                  opened, error >>

Next ==
  \/ LoopTest
  \/ Scan(Listings)
  \/ Choose
  \/ Check
  \/ \E ok \in BOOLEAN : PreprocessFile(ok)
  \/ Setup
  \/ FrameStart
  \/ WedgeStart
  \/ FillMask
  \/ MaskWedge
  \/ Warp
  \/ Mirror
  \/ Accumulate
  \/ FinishFrame
  \/ \E ok \in BOOLEAN : Save(ok)
  \/ Incr
  \/ Interrupt

Spec == Init /\ [][Next]_vars

\* The run in which every scan finds at least two eligible files, no file
\* fails to decode, the encoder succeeds and nothing interrupts the process.
\* The script is sequential, so its next step is always eventually taken.
GoodListings == { s \in Listings : Len(FilterEligible(s)) >= 2 }

NextOK ==
  \/ LoopTest
  \/ Scan(GoodListings)
  \/ Choose
  \/ Check
  \/ PreprocessFile(TRUE)
  \/ Setup
  \/ FrameStart
  \/ WedgeStart
  \/ FillMask
  \/ MaskWedge
  \/ Warp
  \/ Mirror
  \/ Accumulate
  \/ FinishFrame
  \/ Save(TRUE)
  \/ Incr

SpecOK == Init /\ [][NextOK]_vars /\ WF_vars(NextOK)

\* ================================================================ claims

\* The frames held in `frames` were composed from the current image_files.
WedgePcs == {"wedge", "fill", "mask", "warp", "flip", "add"}
InGeneration == pc \in {"frame", "save", "incr"} \cup WedgePcs

\* C1: when the animation is encoded (pc = "save") the frame sequence holds
\* exactly frame_count frames, and the frame at position f was composed with
\* base_rotation = f * (360 / frame_count): frame 0 at 0, a constant positive
\* step, every base rotation in [0, 360).
C1_FramesCoverOneRevolution ==
  pc = "save" =>
    /\ Len(frames) = frame_count
    /\ \A f \in 0 .. frame_count - 1 :
         /\ frames[f + 1].base = f * (FullTurn \div frame_count)
         /\ frames[f + 1].base >= 0
         /\ frames[f + 1].base < FullTurn
    /\ frames[1].base = 0
    /\ \A f \in 1 .. frame_count - 1 :
         /\ frames[f + 1].base > frames[f].base
         /\ frames[f + 1].base - frames[f].base = FullTurn \div frame_count

C1_Witness ==
  /\ pc = "save"
  /\ iteration = 1
  /\ Len(frames) = frame_count
  /\ frames[frame_count].base = (frame_count - 1) * (FullTurn \div frame_count)

\* C3: the artifact store changes only by the save of a complete frame
\* sequence (all frame_count frames appended), which adds the artifact of the
\* current iteration with all its frames; a step that fails or interrupts
\* the iteration before the save leaves no artifact for that iteration and
\* the earlier artifacts as they were.
C3_NoPartialArtifact ==
  [][ /\ artifacts' # artifacts =>
           /\ pc = "save"
           /\ Len(frames) = frame_count
           /\ DOMAIN artifacts' = DOMAIN artifacts \cup {OutputGif(iteration)}
           /\ artifacts'[OutputGif(iteration)] = frame_count
           /\ \A a \in DOMAIN artifacts \ {OutputGif(iteration)} :
                artifacts'[a] = artifacts[a]
      /\ ( /\ pc \in {"scan", "choose", "check", "preprocess", "frame"} \cup WedgePcs
           /\ pc' \in {"failed", "interrupted"} ) =>
           /\ OutputGif(iteration) \notin DOMAIN artifacts'
           /\ artifacts' = artifacts
    ]_vars

C3_Witness ==
  /\ pc = "interrupted"
  /\ iteration = 1
  /\ Len(frames) \in 1 .. frame_count - 1
  /\ DOMAIN artifacts = {OutputGif(0)}
  /\ artifacts[OutputGif(0)] = frame_count

\* C4: when fewer eligible files exist than the segment count needs (fewer
\* than 2), the iteration has failed with the insufficient-sources error of
\* line 29, before any image was opened and without an artifact.
C4_InsufficientSourcesError ==
  ( /\ pc \notin {"loop", "scan", "choose", "interrupted", "done"}
    /\ Len(image_files) < 2 ) =>
    /\ pc = "failed"
    /\ error = "ValueError: need at least n_segments images"
    /\ opened = 0
    /\ OutputGif(iteration) \notin DOMAIN artifacts

\* C5: the artifacts written so far are named 000, 001, ... by the iteration
\* index (3 digits, zero-padded), pairwise distinct, one per completed
\* iteration; the index is one behind the number of artifacts exactly between
\* the save and the increment.
C5_OneArtifactPerIteration ==
  /\ \A k \in 1 .. Len(written) :
       /\ written[k] = Format03(k - 1)
       /\ Len(written[k]) = 3
       /\ written[k][1] * 100 + written[k][2] * 10 + written[k][3] = k - 1
  /\ \A a, b \in 1 .. Len(written) : a # b => written[a] # written[b]
  /\ DOMAIN artifacts = { written[k] : k \in 1 .. Len(written) }
  /\ Len(written) \in {iteration, iteration + 1}
  /\ pc = "incr" => Len(written) = iteration + 1
  /\ pc \in {"loop", "scan", "choose", "check", "preprocess", "frame", "save",
             "done", "failed"} \cup WedgePcs => Len(written) = iteration

C5_Witness ==
  /\ pc = "incr"
  /\ iteration = 1
  /\ written = << <<0, 0, 0>>, <<0, 0, 1>> >>

\* C6: in every frame, wedge k is filled from the file at position
\* (k mod number of sources) of the sorted source list, whatever the frame.
C6_WedgeSourceCyclic ==
  InGeneration =>
    /\ \A a \in 1 .. Len(image_files) - 1 : image_files[a] < image_files[a + 1]
    /\ \A f \in 1 .. Len(frames) :
         /\ Len(frames[f].srcs) = n_segments
         /\ \A k \in 0 .. n_segments - 1 :
              frames[f].srcs[k + 1] = image_files[(k % Len(image_files)) + 1]
    /\ pc \in WedgePcs =>
         /\ Len(used) \in {i, i + 1}
         /\ \A k \in 0 .. Len(used) - 1 :
              used[k + 1] = image_files[(k % Len(image_files)) + 1]

C6_Witness ==
  /\ pc = "save"
  /\ n_segments = 3
  /\ image_files = <<1, 4, 5>>
  /\ frames[frame_count].srcs = <<1, 4, 5>>
  /\ frames[1].srcs = frames[frame_count].srcs

\* C7: during frame generation 2 <= n_segments <= number of sources, every
\* frame of the iteration was composed with that n_segments, and n_segments
\* changes only at the draw of line 25, once per iteration.
C7_SegmentCount ==
  /\ [](InGeneration =>
          /\ 2 <= n_segments
          /\ n_segments <= Len(image_files)
          /\ \A f \in 1 .. Len(frames) : frames[f].n = n_segments)
  /\ [][ /\ n_segments' # n_segments => pc = "choose"
         /\ (pc = "choose" /\ pc' = "check") => n_segments' \in 2 .. Len(image_files)
       ]_vars

C7_Witness ==
  /\ pc = "wedge"
  /\ iteration = 2
  /\ frame = frame_count - 1
  /\ n_segments = Len(image_files)
  /\ n_segments = 4

\* The transformed wedges of the current frame, by wedge index.
Wedges ==
  [k \in 0 .. n_segments - 1 |->
     Rotated(processed_images[SrcIndex(k, Len(processed_images)) + 1].img,
             base_rotation, k, n_segments)]

\* Accumulation of the wedges ws in the given order into a zeroed canvas.
RECURSIVE AccumulateIn(_, _, _)
AccumulateIn(ws, order, acc) ==
  IF order = <<>> THEN acc
  ELSE AccumulateIn(ws, Tail(order), Cv2Add(acc, ws[Head(order)]))

Orders(n) ==
  { s \in [1 .. n -> 0 .. n - 1] : \A a, b \in 1 .. n : a # b => s[a] # s[b] }

\* C9: once all wedges of a frame are accumulated, the canvas equals the
\* accumulation of the same wedges in any other order.
C9_OrderIndependent ==
  (pc = "wedge" /\ i = n_segments) =>
    LET ws == Wedges
    IN  \A order \in Orders(n_segments) : AccumulateIn(ws, order, Zeros) = output

\* A finished canvas with a pixel that two wedges of different content hit.
C9_Witness ==
  /\ pc = "wedge"
  /\ i = n_segments
  /\ n_segments >= 3
  /\ LET ws == Wedges
     IN  \E p \in Pixels : \E a, b \in 0 .. n_segments - 1 :
           /\ a # b
           /\ ws[a][p] # 0
           /\ ws[b][p] # 0
           /\ ws[a][p] # ws[b][p]
           /\ output[p] = SaturateAdd(ws[a][p], ws[b][p])

\* C10: with at least 2 eligible files at every scan and no error, the loop
\* ends, after exactly max_iterations iterations, with the artifacts
\* 000 .. max_iterations-1 written in that order; the counter never exceeds
\* max_iterations.
C10_Terminates ==
  /\ <>(pc = "done")
  /\ [](iteration <= max_iterations)
  /\ [](pc = "done" =>
          /\ iteration = max_iterations
          /\ written = [k \in 1 .. max_iterations |-> Format03(k - 1)]
          /\ DOMAIN artifacts = { Format03(k) : k \in 0 .. max_iterations - 1 }
          /\ \A a \in DOMAIN artifacts : artifacts[a] = frame_count)

C10_Witness ==
  /\ pc = "done"
  /\ iteration = max_iterations
  /\ Len(written) = max_iterations
  /\ Cardinality(DOMAIN artifacts) = max_iterations

\* The 4-neighbours of a pixel that lie on the canvas.
Neighbours(p) ==
  { q \in Pixels : (q[1] - p[1]) * (q[1] - p[1]) + (q[2] - p[2]) * (q[2] - p[2]) = 1 }

\* p lies inside the region m (a mask or an image's support), off its boundary.
Interior(m, p) == m[p] # 0 /\ \A q \in Neighbours(p) : m[q] # 0

\* The wedge masks of the current frame, by wedge index.
Masks == [k \in 0 .. n_segments - 1 |-> WedgeMask(base_rotation, k, n_segments)]

\* C2: for the n_segments and base rotation of the frame being composed, every
\* pixel within radius frame_size/2 of the center lies in some wedge mask, and
\* a pixel that lies in two masks is a boundary pixel of both.
C2_MasksTileDisc ==
  pc \in WedgePcs =>
    LET ms == Masks
    IN  \A p \in Pixels :
          /\ InDisc(p) => \E k \in 0 .. n_segments - 1 : ms[k][p] # 0
          /\ \A a, b \in 0 .. n_segments - 1 :
               (a # b /\ ms[a][p] # 0 /\ ms[b][p] # 0) =>
                 (~Interior(ms[a], p) /\ ~Interior(ms[b], p))

\* The canvas region wedge k lands on: the support of the transformed wedge
\* of an all-white source.
White == [p \in Pixels |-> 255]
Regions ==
  [k \in 0 .. n_segments - 1 |-> Rotated(White, base_rotation, k, n_segments)]

\* C8: in the frame being composed, a canvas pixel that receives content from
\* two wedges lies on the boundary of both wedges' regions.
C8_WedgesDisjoint ==
  pc \in WedgePcs =>
    LET rs == Regions
    IN  \A p \in Pixels : \A a, b \in 0 .. n_segments - 1 :
          (a # b /\ rs[a][p] # 0 /\ rs[b][p] # 0) =>
            (~Interior(rs[a], p) /\ ~Interior(rs[b], p))

====
